---- MODULE Spec2Model ----
(***************************************************************************)
(* Model of the calendar slot finder of src/agents/schedule_agent.py:      *)
(* find_available_slots and its nested helpers parse_time, extract_events, *)
(* find_gaps and find_30_min_slots.                                        *)
(*                                                                         *)
(* A datetime is the number of minutes since 00:00 of date 0; the date of  *)
(* a datetime t is t \div DayMinutes.  An event text is a sequence of      *)
(* lines; a line is what the code looks at: whether it is blank, whether   *)
(* it starts with the bullet, whether it holds "No events found", the time *)
(* ranges "token - token" on it, in order.  A time token is what           *)
(* time_pattern's groups can hold: hour digits, two minute digits, an      *)
(* optional meridiem and whether whitespace precedes the meridiem.         *)
(***************************************************************************)
EXTENDS Integers, Sequences, FiniteSets, TLC

\* ---------------------------------------------------------------- bounds
\* The largest number of lines of an event text.
MaxLines == 3
\* The longest gap, in minutes, find_30_min_slots is called on directly.
MaxGapMinutes == 75
\* ------------------------------------------------------- program constants
work_start == 9
work_end == 18
SlotMinutes == 30
StrideMinutes == 15
MaxSlots == 3
HourMinutes == 60
DayMinutes == 1440

\* The system dates an invocation can read: the date it starts on and, when
\* midnight passes while it runs, the next one.
Dates == {0, 1}

\* ------------------------------------------------------------ time tokens
Tok(h, m, mer, sp) == [h |-> h, m |-> m, mer |-> mer, sp |-> sp]

\* datetime.combine(today, time(hour, minute))
Combine(today, hour, minute) == today * DayMinutes + hour * HourMinutes + minute

Parsed(t) == [kind |-> "ok", t |-> t]
Raised == [kind |-> "raise", t |-> 0]

\* strptime(s, "%I:%M %p"): hour 1..12, minute 0..59, whitespace, AM or PM.
Strptime_I_M_p(tok) ==
    IF tok.mer # "" /\ tok.sp /\ tok.h \in 1..12 /\ tok.m \in 0..59
    THEN <<(tok.h % 12) + (IF tok.mer = "PM" THEN 12 ELSE 0), tok.m>>
    ELSE <<>>

\* strptime(s, "%H:%M"): hour 0..23, minute 0..59, nothing after the minute.
Strptime_H_M(tok) ==
    IF tok.mer = "" /\ tok.h \in 0..23 /\ tok.m \in 0..59
    THEN <<tok.h, tok.m>>
    ELSE <<>>

\* Mutant: the third format is "%H:%M%p", which reads the hour as written and
\* ignores the meridiem.
Strptime_I_Mp_AsH(tok) ==
    IF tok.mer # "" /\ ~tok.sp /\ tok.h \in 0..23 /\ tok.m \in 0..59
    THEN <<tok.h, tok.m>>
    ELSE <<>>

\* strptime(s, "%I:%M%p"): hour 1..12, minute 0..59, AM or PM with no space.
Strptime_I_Mp(tok) ==
    IF tok.mer # "" /\ ~tok.sp /\ tok.h \in 1..12 /\ tok.m \in 0..59
    THEN <<(tok.h % 12) + (IF tok.mer = "PM" THEN 12 ELSE 0), tok.m>>
    ELSE <<>>

\* The numeric fallback: the hour after the PM / AM adjustment.
FallbackHour(tok) ==
    IF tok.mer = "PM" /\ tok.h # 12 THEN tok.h + 12
    ELSE IF tok.mer = "AM" /\ tok.h = 12 THEN 0
    ELSE tok.h

\* parse_time(time_str), with today the date datetime.now() gives it.  The
\* three formats are tried in order; the fallback's time.replace() raises
\* ValueError for an hour over 23 or a minute over 59, and nothing catches it.
\* (return None is not reachable from extract_events: every token it passes
\* matches the fallback's pattern.)
parse_time(tok, today) ==
    LET f1 == Strptime_I_M_p(tok)
        f2 == Strptime_H_M(tok)
        f3 == Strptime_I_Mp(tok)
        hour == FallbackHour(tok)
    IN  IF f1 # <<>> THEN Parsed(Combine(today, f1[1], f1[2]))
        ELSE IF f2 # <<>> THEN Parsed(Combine(today, f2[1], f2[2]))
        ELSE IF f3 # <<>> THEN Parsed(Combine(today, f3[1], f3[2]))
        ELSE IF hour \in 0..23 /\ tok.m \in 0..59
             THEN Parsed(Combine(today, hour, tok.m))
             ELSE Raised

\* ------------------------------------------------------------ event texts
Line(blank, bullet, sentinel, ranges) ==
    [blank |-> blank, bullet |-> bullet, sentinel |-> sentinel, ranges |-> ranges]

AM(h, m) == Tok(h, m, "AM", TRUE)
PM(h, m) == Tok(h, m, "PM", TRUE)
H24(h, m) == Tok(h, m, "", FALSE)
Event(a, b) == Line(FALSE, FALSE, FALSE, <<(<<a, b>>)>>)

\* The lines an event text is made of.
Lines ==
    { Line(TRUE, FALSE, FALSE, <<>>),                           \* ""
      Line(FALSE, FALSE, FALSE, <<>>),                          \* "Lunch"
      Line(FALSE, FALSE, TRUE, <<>>),                           \* "No events found for today."
      Line(FALSE, TRUE, FALSE, <<(<<AM(10, 0), AM(11, 0)>>)>>), \* "• 10:00 AM - 11:00 AM"
      Event(AM(10, 0), AM(11, 0)),                              \* "10:00 AM - 11:00 AM"
      Event(AM(9, 0), AM(10, 0)),                               \* "9:00 AM - 10:00 AM"
      Event(AM(9, 0), PM(6, 0)),                                \* "9:00 AM - 6:00 PM"
      Event(AM(7, 0), AM(8, 0)),                                \* "7:00 AM - 8:00 AM"
      Event(PM(11, 30), AM(12, 30)),                            \* "11:30 PM - 12:30 AM"
      Event(Tok(9, 45, "AM", FALSE), Tok(10, 0, "AM", FALSE)),  \* "9:45AM - 10:00AM"
      Event(PM(0, 30), H24(12, 30)),                            \* "0:30 PM - 12:30"
      Event(H24(25, 0), H24(26, 0)),                            \* "25:00 - 26:00"
      Line(FALSE, FALSE, FALSE, <<(<<PM(1, 0), PM(2, 0)>>), (<<PM(3, 0), PM(4, 0)>>)>>)
                                                                \* "1:00 PM - 2:00 PM, 3:00 PM - 4:00 PM"
    }

\* The event texts, as events_text.split('\n') gives them: every sequence of
\* one to MaxLines lines (the empty text is one blank line).
Texts == UNION {[1..n -> Lines] : n \in 1..MaxLines}

\* ------------------------------------------------------------------ state
VARIABLES
    events_text,      \* the argument of find_available_slots
    pc,               \* where the invocation is
    line_no,          \* extract_events: the index of the line the loop is at
    acc,              \* extract_events: its list events, in line order
    events,           \* find_available_slots: events (sorted)
    work_start_time,  \* find_gaps: work_start_time
    work_end_time,    \* find_gaps: work_end_time
    gaps,             \* find_available_slots: gaps
    available_slots,  \* find_available_slots: available_slots (strings)
    slot_spans,       \* find_30_min_slots: (current_time, slot_end) of each returned string
    result,           \* the returned text, as its parts
    now_date,         \* the system date at the latest call of datetime.now()
    time_str,         \* parse_time called on its own: its argument
    parsed_time,      \* parse_time called on its own: what it returned
    calendar,         \* get_calendar_events: how the icalBuddy command ended
    other_run,        \* a second invocation of find_available_slots: its locals
    loop              \* find_30_min_slots run pass by pass: its locals

\* What the steps of find_available_slots, each helper taken as one step,
\* leave alone.
caller_vars == <<time_str, parsed_time, calendar, other_run, loop>>

vars == <<events_text, pc, line_no, acc, events, work_start_time, work_end_time,
          gaps, available_slots, slot_spans, result, now_date, time_str,
          parsed_time, calendar, other_run, loop>>

NoResult == [parsed |-> 0, gaps |-> 0, slots |-> <<>>, none_found |-> FALSE]
NoToken == Tok(0, 0, "", FALSE)
NotParsed == [kind |-> "not called", t |-> 0]
\* find_30_min_slots not entered.
NoLoop == [gap_no |-> 1, current_time |-> 0, slots |-> <<>>]
\* No second invocation.
NoOther == [events_text |-> <<>>, pc |-> "not called", line_no |-> 1, acc |-> <<>>,
            events |-> <<>>, gaps |-> <<>>, available_slots |-> <<>>,
            result |-> NoResult]

\* find_available_slots(events_text) is entered.
Entered ==
    /\ line_no = 1
    /\ acc = <<>>
    /\ events = <<>>
    /\ work_start_time = 0
    /\ work_end_time = 0
    /\ gaps = <<>>
    /\ available_slots = <<>>
    /\ slot_spans = <<>>
    /\ result = NoResult
    /\ now_date = 0
    /\ loop = NoLoop

Init ==
    /\ events_text \in Texts
    /\ pc = "extract"
    /\ time_str = NoToken
    /\ parsed_time = NotParsed
    /\ calendar = "not called"
    /\ other_run = NoOther
    /\ Entered


\* ---------------------------------------------------------- extract_events
\* The test that makes the loop skip a line (the line is stripped first).
SkipLine(line) == line.blank \/ line.bullet \/ line.sentinel

\* re.search(time_pattern, line): the first range of the line, if any.
HasMatch(line) == line.ranges # <<>>
\* Mutant: the last range of the line is taken.
MatchOf_Last(line) == line.ranges[Len(line.ranges)]
MatchOf(line) == line.ranges[1]

\* Mutant: the end of an event is kept as parsed (no day is added).
NormalizeEnd_NoWrap(start_time, end_time) == end_time

\* The end of an event: a day is added when it is not after the start.
NormalizeEnd(start_time, end_time) ==
    IF end_time <= start_time THEN end_time + DayMinutes ELSE end_time

\* s with e put after every entry whose start is at most e's start.
RECURSIVE InsertByStart(_, _)
InsertByStart(s, e) ==
    IF s = <<>> THEN <<e>>
    ELSE IF s[Len(s)][1] <= e[1] THEN Append(s, e)
    ELSE Append(InsertByStart(SubSeq(s, 1, Len(s) - 1), e), s[Len(s)])

\* Mutant: an interval equal to one already in the list is left out
\* (sorted(set(events), ...)).
RECURSIVE SortedByStart_Dedup(_)
SortedByStart_Dedup(s) ==
    IF s = <<>> THEN <<>>
    ELSE LET rest == SortedByStart_Dedup(SubSeq(s, 1, Len(s) - 1))
         IN  IF \E i \in DOMAIN rest : rest[i] = s[Len(s)]
             THEN rest
             ELSE InsertByStart(rest, s[Len(s)])

\* sorted(events, key=lambda x: x[0]): a stable sort on the start.
RECURSIVE SortedByStart(_)
SortedByStart(s) ==
    IF s = <<>> THEN <<>>
    ELSE InsertByStart(SortedByStart(SubSeq(s, 1, Len(s) - 1)), s[Len(s)])

\* ---------------------------------------------------------------- find_gaps
\* Gap before first event
LeadingGap(ev, wst) ==
    IF ev[1][1] > wst THEN <<(<<wst, ev[1][1]>>)>> ELSE <<>>

\* Mutant: the loop stops one pair early (range(len(events) - 2)).
RECURSIVE GapsBetween_SkipLast(_, _)
GapsBetween_SkipLast(ev, i) ==
    IF i >= Len(ev) - 1 THEN <<>>
    ELSE (IF ev[i + 1][1] > ev[i][2] THEN <<(<<ev[i][2], ev[i + 1][1]>>)>> ELSE <<>>)
         \o GapsBetween_SkipLast(ev, i + 1)

\* Mutant: the test between two events is >= instead of >.
RECURSIVE GapsBetween_AllowEqual(_, _)
GapsBetween_AllowEqual(ev, i) ==
    IF i >= Len(ev) THEN <<>>
    ELSE (IF ev[i + 1][1] >= ev[i][2] THEN <<(<<ev[i][2], ev[i + 1][1]>>)>> ELSE <<>>)
         \o GapsBetween_AllowEqual(ev, i + 1)

\* Gaps between events: the loop from index i on.
RECURSIVE GapsBetween(_, _)
GapsBetween(ev, i) ==
    IF i >= Len(ev) THEN <<>>
    ELSE (IF ev[i + 1][1] > ev[i][2] THEN <<(<<ev[i][2], ev[i + 1][1]>>)>> ELSE <<>>)
         \o GapsBetween(ev, i + 1)

\* Mutant: the trailing gap is taken from the first event (events[0]).
TrailingGap_FirstEvent(ev, wet) ==
    IF ev[1][2] < wet THEN <<(<<ev[1][2], wet>>)>> ELSE <<>>

\* Gap after last event
TrailingGap(ev, wet) ==
    IF ev[Len(ev)][2] < wet THEN <<(<<ev[Len(ev)][2], wet>>)>> ELSE <<>>

\* Mutant: with no events the work window is not appended to gaps.
find_gaps_EmptyNoGap(ev, wst, wet) ==
    IF ev = <<>> THEN <<>>
    ELSE LeadingGap(ev, wst) \o GapsBetween(ev, 1) \o TrailingGap(ev, wet)

find_gaps(ev, wst, wet) ==
    IF ev = <<>> THEN <<(<<wst, wet>>)>>
    ELSE LeadingGap(ev, wst) \o GapsBetween(ev, 1) \o TrailingGap(ev, wet)

\* -------------------------------------------------------- find_30_min_slots
\* Mutant: the loop test is current_time <= gap_end.
SlotsInGap_PastEnd(gap_start, gap_end) ==
    LET passes == IF gap_start <= gap_end
                  THEN ((gap_end - gap_start) \div StrideMinutes) + 1
                  ELSE 0
    IN  [k \in 1..passes |->
            <<gap_start + (k - 1) * StrideMinutes,
              gap_start + (k - 1) * StrideMinutes + SlotMinutes>>]

\* The while loop over one gap, as the (current_time, slot_end) of its passes:
\* pass k starts with current_time = gap_start + (k - 1) * 15 minutes, and the
\* loop runs as long as current_time + 30 minutes <= gap_end.
SlotsInGap(gap_start, gap_end) ==
    LET passes == IF gap_start + SlotMinutes <= gap_end
                  THEN ((gap_end - gap_start - SlotMinutes) \div StrideMinutes) + 1
                  ELSE 0
    IN  [k \in 1..passes |->
            <<gap_start + (k - 1) * StrideMinutes,
              gap_start + (k - 1) * StrideMinutes + SlotMinutes>>]

\* Mutant: the loop over the gaps leaves out the first gap (gaps[1:]).
RECURSIVE SlotsFrom_SkipFirst(_, _)
SlotsFrom_SkipFirst(gs, i) ==
    IF i + 1 > Len(gs) THEN <<>>
    ELSE SlotsInGap(gs[i + 1][1], gs[i + 1][2]) \o SlotsFrom_SkipFirst(gs, i + 1)

\* The for loop over the gaps, from gap i on: every slot appended to slots.
RECURSIVE SlotsFrom(_, _)
SlotsFrom(gs, i) ==
    IF i > Len(gs) THEN <<>>
    ELSE SlotsInGap(gs[i][1], gs[i][2]) \o SlotsFrom(gs, i + 1)

\* Mutant: the slice is left out (return slots).
Earliest_All(s) == s

\* Mutant: the slice keeps the end of the list (slots[-3:]).
Earliest_Latest(s) ==
    SubSeq(s, IF Len(s) < MaxSlots THEN 1 ELSE Len(s) - MaxSlots + 1, Len(s))

\* slots[:3]
Earliest(s) == SubSeq(s, 1, IF Len(s) < MaxSlots THEN Len(s) ELSE MaxSlots)

Digits == <<"0", "1", "2", "3", "4", "5", "6", "7", "8", "9">>
TwoDigits(n) == Digits[(n \div 10) + 1] \o Digits[(n % 10) + 1]

\* t.strftime('%I:%M %p'): the 12-hour clock, zero padded; the date is dropped.
Strftime(t) ==
    LET hour == (t % DayMinutes) \div HourMinutes
        minute == t % HourMinutes
        h12 == IF hour % 12 = 0 THEN 12 ELSE hour % 12
    IN  TwoDigits(h12) \o ":" \o TwoDigits(minute) \o " "
        \o (IF hour < 12 THEN "AM" ELSE "PM")

\* slot_str
SlotStr(span) == Strftime(span[1]) \o " - " \o Strftime(span[2])

find_30_min_slots(gs) ==
    LET spans == Earliest(SlotsFrom(gs, 1))
    IN  [i \in 1..Len(spans) |-> SlotStr(spans[i])]

\* ------------------------------------------------------------------ actions
\* One pass of the loop of extract_events over a line that is skipped or
\* holds no time range.
ExtractSkip ==
    /\ pc = "extract"
    /\ line_no <= Len(events_text)
    /\ SkipLine(events_text[line_no]) \/ ~HasMatch(events_text[line_no])
    /\ line_no' = line_no + 1
    /\ UNCHANGED <<events_text, pc, acc, events, work_start_time, work_end_time,
                   gaps, available_slots, slot_spans, result, now_date>>
    /\ UNCHANGED caller_vars

\* One pass of the loop over a line with a time range: parse_time reads the
\* system date once for the start (d1) and once for the end (d2).
ExtractMatch ==
    /\ pc = "extract"
    /\ line_no <= Len(events_text)
    /\ ~SkipLine(events_text[line_no])
    /\ HasMatch(events_text[line_no])
    /\ \E d1 \in Dates, d2 \in Dates :
        /\ now_date <= d1
        /\ d1 <= d2
        /\ LET m == MatchOf(events_text[line_no])
               start_time == parse_time(m[1], d1)
               end_time == parse_time(m[2], d2)
           IN  IF start_time.kind = "raise"
               THEN /\ pc' = "raised"
                    /\ now_date' = d1
                    /\ UNCHANGED <<line_no, acc>>
               ELSE IF end_time.kind = "raise"
               THEN /\ pc' = "raised"
                    /\ now_date' = d2
                    /\ UNCHANGED <<line_no, acc>>
               ELSE /\ acc' = Append(acc, <<start_time.t,
                                            NormalizeEnd(start_time.t, end_time.t)>>)
                    /\ line_no' = line_no + 1
                    /\ now_date' = d2
                    /\ pc' = pc
    /\ UNCHANGED <<events_text, events, work_start_time, work_end_time,
                   gaps, available_slots, slot_spans, result>>
    /\ UNCHANGED caller_vars

\* The end of extract_events: the sorted list is returned.
ExtractReturn ==
    /\ pc = "extract"
    /\ line_no > Len(events_text)
    /\ events' = SortedByStart(acc)
    /\ pc' = "find_gaps"
    /\ UNCHANGED <<events_text, line_no, acc, work_start_time, work_end_time,
                   gaps, available_slots, slot_spans, result, now_date>>
    /\ UNCHANGED caller_vars

\* gaps = find_gaps(events): the work window is put on the date read now.
FindGaps ==
    /\ pc = "find_gaps"
    /\ \E today \in Dates :
        /\ now_date <= today
        /\ now_date' = today
        /\ work_start_time' = Combine(today, work_start, 0)
        /\ work_end_time' = Combine(today, work_end, 0)
        /\ gaps' = find_gaps(events, Combine(today, work_start, 0),
                             Combine(today, work_end, 0))
    /\ pc' = "find_slots"
    /\ UNCHANGED <<events_text, line_no, acc, events, available_slots,
                   slot_spans, result>>
    /\ UNCHANGED caller_vars

\* available_slots = find_30_min_slots(gaps)
FindSlots ==
    /\ pc = "find_slots"
    /\ available_slots' = find_30_min_slots(gaps)
    /\ slot_spans' = Earliest(SlotsFrom(gaps, 1))
    /\ pc' = "format"
    /\ UNCHANGED <<events_text, line_no, acc, events, work_start_time,
                   work_end_time, gaps, result, now_date>>
    /\ UNCHANGED caller_vars

\* Mutant: the else branch is left out, the text never says that no slot was
\* found.
Return_NoNote ==
    /\ pc = "format"
    /\ result' = [parsed |-> Len(events), gaps |-> Len(gaps),
                  slots |-> available_slots, none_found |-> FALSE]
    /\ pc' = "done"
    /\ UNCHANGED <<events_text, line_no, acc, events, work_start_time,
                   work_end_time, gaps, available_slots, slot_spans, now_date,
                   time_str, parsed_time, calendar, other_run, loop>>

\* The result text is put together and returned.
Return ==
    /\ pc = "format"
    /\ result' = [parsed |-> Len(events), gaps |-> Len(gaps),
                  slots |-> available_slots,
                  none_found |-> (available_slots = <<>>)]
    /\ pc' = "done"
    /\ UNCHANGED <<events_text, line_no, acc, events, work_start_time,
                   work_end_time, gaps, available_slots, slot_spans, now_date>>
    /\ UNCHANGED caller_vars

Next ==
    \/ ExtractSkip
    \/ ExtractMatch
    \/ ExtractReturn
    \/ FindGaps
    \/ FindSlots
    \/ Return

Spec == Init /\ [][Next]_vars

\* ------------------------------------------------- parse_time on its own
\* The tokens time_pattern's groups can hold: one or two hour digits, two
\* minute digits, AM or PM or nothing, with or without whitespace after the
\* minute digits (parse_time strips it when nothing follows).
Tokens == [h : 0..99, m : 0..99, mer : {"", "AM", "PM"}, sp : BOOLEAN]

InitParse ==
    /\ time_str \in Tokens
    /\ pc = "parse_time"
    /\ parsed_time = NotParsed
    /\ events_text = <<Line(TRUE, FALSE, FALSE, <<>>)>>
    /\ calendar = "not called"
    /\ other_run = NoOther
    /\ Entered

\* parse_time(time_str): it returns a datetime on the date read now, or the
\* ValueError of time.replace() leaves it.
ParseTime ==
    /\ pc = "parse_time"
    /\ \E today \in Dates :
        /\ now_date <= today
        /\ now_date' = today
        /\ parsed_time' = parse_time(time_str, today)
        /\ pc' = IF parse_time(time_str, today).kind = "raise"
                 THEN "raised" ELSE "parsed"
    /\ UNCHANGED <<events_text, line_no, acc, events, work_start_time,
                   work_end_time, gaps, available_slots, slot_spans, result,
                   time_str, calendar, other_run, loop>>

NextParse == ParseTime

SpecParse == InitParse /\ [][NextParse]_vars

\* ------------------------------------- find_gaps with a given work window
\* The hours time.replace(hour=...) accepts for work_start and work_end.
Hours == 0..23

\* The texts of one line.
WindowTexts == {<<line>> : line \in Lines}

InitWindow ==
    /\ events_text \in WindowTexts
    /\ pc = "extract"
    /\ time_str = NoToken
    /\ parsed_time = NotParsed
    /\ calendar = "not called"
    /\ other_run = NoOther
    /\ Entered

\* find_gaps(events, work_start, work_end) with the two hours given by the
\* caller instead of the defaults: no test is made on them.
FindGapsWindow ==
    /\ pc = "find_gaps"
    /\ \E ws \in Hours, we \in Hours, today \in Dates :
        /\ now_date <= today
        /\ now_date' = today
        /\ work_start_time' = Combine(today, ws, 0)
        /\ work_end_time' = Combine(today, we, 0)
        /\ gaps' = find_gaps(events, Combine(today, ws, 0), Combine(today, we, 0))
    /\ pc' = "find_slots"
    /\ UNCHANGED <<events_text, line_no, acc, events, available_slots,
                   slot_spans, result>>
    /\ UNCHANGED caller_vars

NextWindow ==
    \/ ExtractSkip
    \/ ExtractMatch
    \/ ExtractReturn
    \/ FindGapsWindow

SpecWindow == InitWindow /\ [][NextWindow]_vars

\* ------------------------------------------------ get_available_slots_direct
\* The text get_calendar_events returns when the command fails: one line,
\* "Error running icalBuddy: ..." or "icalBuddy not found. Please install it
\* first.", neither of which holds a time range.
ErrorText == <<Line(FALSE, FALSE, FALSE, <<>>)>>
CommandFailures == {"CalledProcessError", "FileNotFoundError"}

\* get_available_slots_direct() is entered; events_text is not assigned yet.
InitDirect ==
    /\ events_text = <<>>
    /\ pc = "get_calendar_events"
    /\ time_str = NoToken
    /\ parsed_time = NotParsed
    /\ calendar = "not called"
    /\ other_run = NoOther
    /\ Entered

\* events_text = get_calendar_events(): the standard output of the command,
\* or the text of the except clause the failure of the command leads to.
GetCalendarEvents ==
    /\ pc = "get_calendar_events"
    /\ \/ /\ calendar' = "stdout"
          /\ events_text' \in Texts
       \/ /\ calendar' \in CommandFailures
          /\ events_text' = ErrorText
    /\ pc' = "find_available_slots_tool"
    /\ UNCHANGED <<line_no, acc, events, work_start_time, work_end_time, gaps,
                   available_slots, slot_spans, result, now_date, time_str,
                   parsed_time, other_run, loop>>

\* slots = find_available_slots_tool(events_text): the slot finder is called
\* on whatever text get_calendar_events returned.
FindAvailableSlotsTool ==
    /\ pc = "find_available_slots_tool"
    /\ pc' = "extract"
    /\ UNCHANGED <<events_text, line_no, acc, events, work_start_time,
                   work_end_time, gaps, available_slots, slot_spans, result,
                   now_date>>
    /\ UNCHANGED caller_vars

NextDirect ==
    \/ GetCalendarEvents
    \/ FindAvailableSlotsTool
    \/ Next

SpecDirect == InitDirect /\ [][NextDirect]_vars

\* ------------------------------------------- two concurrent invocations
\* The locals of the first invocation; a step of the second invocation
\* leaves them alone, as a step of the first leaves other_run alone.  The
\* system clock is the one thing both read.
call_vars == <<events_text, pc, line_no, acc, events, work_start_time,
               work_end_time, gaps, available_slots, slot_spans, result>>

InitPair ==
    /\ events_text \in WindowTexts
    /\ pc = "extract"
    /\ time_str = NoToken
    /\ parsed_time = NotParsed
    /\ calendar = "not called"
    /\ \E text \in WindowTexts :
          other_run = [NoOther EXCEPT !.events_text = text, !.pc = "extract"]
    /\ Entered

\* The second invocation's pass of the loop of extract_events over a line
\* that is skipped or holds no time range.
ExtractSkip_Other ==
    /\ other_run.pc = "extract"
    /\ other_run.line_no <= Len(other_run.events_text)
    /\ LET line == other_run.events_text[other_run.line_no]
       IN  SkipLine(line) \/ ~HasMatch(line)
    /\ other_run' = [other_run EXCEPT !.line_no = @ + 1]
    /\ UNCHANGED <<call_vars, now_date, time_str, parsed_time, calendar, loop>>

\* The second invocation's pass of the loop over a line with a time range.
ExtractMatch_Other ==
    /\ other_run.pc = "extract"
    /\ other_run.line_no <= Len(other_run.events_text)
    /\ ~SkipLine(other_run.events_text[other_run.line_no])
    /\ HasMatch(other_run.events_text[other_run.line_no])
    /\ \E d1 \in Dates, d2 \in Dates :
        /\ now_date <= d1
        /\ d1 <= d2
        /\ LET m == MatchOf(other_run.events_text[other_run.line_no])
               start_time == parse_time(m[1], d1)
               end_time == parse_time(m[2], d2)
           IN  IF start_time.kind = "raise"
               THEN /\ other_run' = [other_run EXCEPT !.pc = "raised"]
                    /\ now_date' = d1
               ELSE IF end_time.kind = "raise"
               THEN /\ other_run' = [other_run EXCEPT !.pc = "raised"]
                    /\ now_date' = d2
               ELSE /\ other_run' =
                           [other_run EXCEPT
                               !.acc = Append(@, <<start_time.t,
                                                   NormalizeEnd(start_time.t, end_time.t)>>),
                               !.line_no = @ + 1]
                    /\ now_date' = d2
    /\ UNCHANGED <<call_vars, time_str, parsed_time, calendar, loop>>

ExtractReturn_Other ==
    /\ other_run.pc = "extract"
    /\ other_run.line_no > Len(other_run.events_text)
    /\ other_run' = [other_run EXCEPT !.events = SortedByStart(other_run.acc),
                                      !.pc = "find_gaps"]
    /\ UNCHANGED <<call_vars, now_date, time_str, parsed_time, calendar, loop>>

\* Mutant: events is one list shared by the invocations (a module-level
\* list): the second invocation's find_gaps reads the first one's events.
FindGaps_Other_SharedEvents ==
    /\ other_run.pc = "find_gaps"
    /\ \E today \in Dates :
        /\ now_date <= today
        /\ now_date' = today
        /\ other_run' = [other_run EXCEPT
               !.gaps = find_gaps(events, Combine(today, work_start, 0),
                                  Combine(today, work_end, 0)),
               !.pc = "find_slots"]
    /\ UNCHANGED <<call_vars, time_str, parsed_time, calendar, loop>>

FindGaps_Other ==
    /\ other_run.pc = "find_gaps"
    /\ \E today \in Dates :
        /\ now_date <= today
        /\ now_date' = today
        /\ other_run' = [other_run EXCEPT
               !.gaps = find_gaps(other_run.events, Combine(today, work_start, 0),
                                  Combine(today, work_end, 0)),
               !.pc = "find_slots"]
    /\ UNCHANGED <<call_vars, time_str, parsed_time, calendar, loop>>

FindSlots_Other ==
    /\ other_run.pc = "find_slots"
    /\ other_run' = [other_run EXCEPT
           !.available_slots = find_30_min_slots(other_run.gaps),
           !.pc = "format"]
    /\ UNCHANGED <<call_vars, now_date, time_str, parsed_time, calendar, loop>>

Return_Other ==
    /\ other_run.pc = "format"
    /\ other_run' = [other_run EXCEPT
           !.result = [parsed |-> Len(other_run.events),
                       gaps |-> Len(other_run.gaps),
                       slots |-> other_run.available_slots,
                       none_found |-> (other_run.available_slots = <<>>)],
           !.pc = "done"]
    /\ UNCHANGED <<call_vars, now_date, time_str, parsed_time, calendar, loop>>

NextPair ==
    \/ Next
    \/ ExtractSkip_Other
    \/ ExtractMatch_Other
    \/ ExtractReturn_Other
    \/ FindGaps_Other
    \/ FindSlots_Other
    \/ Return_Other

SpecPair == InitPair /\ [][NextPair]_vars

\* --------------------------------- find_30_min_slots, one loop pass a step
outer_vars == <<time_str, parsed_time, calendar, other_run>>

\* The gap lists find_30_min_slots is called on directly: one gap from 09:00,
\* of every length up to MaxGapMinutes.
DirectGaps ==
    {<<(<<Combine(0, work_start, 0), Combine(0, work_start, 0) + len>>)>> :
        len \in 0..MaxGapMinutes}

\* Either find_available_slots is entered on a text of one line, or
\* find_30_min_slots is about to be called on a gap list.
InitLoop ==
    /\ time_str = NoToken
    /\ parsed_time = NotParsed
    /\ calendar = "not called"
    /\ other_run = NoOther
    /\ \/ /\ events_text \in WindowTexts
          /\ pc = "extract"
          /\ Entered
       \/ /\ events_text = <<Line(TRUE, FALSE, FALSE, <<>>)>>
          /\ pc = "find_slots"
          /\ gaps \in DirectGaps
          /\ line_no = 2
          /\ acc = <<>>
          /\ events = <<>>
          /\ work_start_time = Combine(0, work_start, 0)
          /\ work_end_time = Combine(0, work_end, 0)
          /\ available_slots = <<>>
          /\ slot_spans = <<>>
          /\ result = NoResult
          /\ now_date = 0
          /\ loop = NoLoop

\* slots = []
FindSlotsEnter ==
    /\ pc = "find_slots"
    /\ loop' = [gap_no |-> 1, current_time |-> 0, slots |-> <<>>]
    /\ pc' = "for_gap"
    /\ UNCHANGED <<events_text, line_no, acc, events, work_start_time,
                   work_end_time, gaps, available_slots, slot_spans, result,
                   now_date, outer_vars>>

\* for gap_start, gap_end in gaps: current_time = gap_start
ForGap ==
    /\ pc = "for_gap"
    /\ loop.gap_no <= Len(gaps)
    /\ loop' = [loop EXCEPT !.current_time = gaps[loop.gap_no][1]]
    /\ pc' = "while"
    /\ UNCHANGED <<events_text, line_no, acc, events, work_start_time,
                   work_end_time, gaps, available_slots, slot_spans, result,
                   now_date, outer_vars>>

\* Mutant: the body of the while loop is empty (current_time is not
\* advanced, nothing is appended).
WhilePass_NoAdvance ==
    /\ pc = "while"
    /\ loop.current_time + SlotMinutes <= gaps[loop.gap_no][2]
    /\ UNCHANGED vars

\* Mutant: current_time is advanced by the length of the slot.
WhilePass_ByDuration ==
    /\ pc = "while"
    /\ loop.current_time + SlotMinutes <= gaps[loop.gap_no][2]
    /\ loop' = [loop EXCEPT
           !.slots = Append(@, <<loop.current_time, loop.current_time + SlotMinutes>>),
           !.current_time = @ + SlotMinutes]
    /\ UNCHANGED <<events_text, pc, line_no, acc, events, work_start_time,
                   work_end_time, gaps, available_slots, slot_spans, result,
                   now_date, outer_vars>>

\* One pass of the while loop: the test holds, the slot from current_time is
\* appended and current_time is advanced by 15 minutes.
WhilePass ==
    /\ pc = "while"
    /\ loop.current_time + SlotMinutes <= gaps[loop.gap_no][2]
    /\ loop' = [loop EXCEPT
           !.slots = Append(@, <<loop.current_time, loop.current_time + SlotMinutes>>),
           !.current_time = @ + StrideMinutes]
    /\ UNCHANGED <<events_text, pc, line_no, acc, events, work_start_time,
                   work_end_time, gaps, available_slots, slot_spans, result,
                   now_date, outer_vars>>

\* The test of the while loop fails: on to the next gap.
WhileExit ==
    /\ pc = "while"
    /\ ~(loop.current_time + SlotMinutes <= gaps[loop.gap_no][2])
    /\ loop' = [loop EXCEPT !.gap_no = @ + 1]
    /\ pc' = "for_gap"
    /\ UNCHANGED <<events_text, line_no, acc, events, work_start_time,
                   work_end_time, gaps, available_slots, slot_spans, result,
                   now_date, outer_vars>>

\* return slots[:3], assigned to available_slots.
FindSlotsReturn ==
    /\ pc = "for_gap"
    /\ loop.gap_no > Len(gaps)
    /\ slot_spans' = Earliest(loop.slots)
    /\ available_slots' = [i \in 1..Len(Earliest(loop.slots)) |->
                              SlotStr(Earliest(loop.slots)[i])]
    /\ pc' = "format"
    /\ UNCHANGED <<events_text, line_no, acc, events, work_start_time,
                   work_end_time, gaps, result, now_date, loop, outer_vars>>

NextLoop ==
    \/ ExtractSkip
    \/ ExtractMatch
    \/ ExtractReturn
    \/ FindGaps
    \/ FindSlotsEnter
    \/ ForGap
    \/ WhilePass
    \/ WhileExit
    \/ FindSlotsReturn
    \/ Return

SpecLoop == InitLoop /\ [][NextLoop]_vars

\* The interpreter goes on running the invocation: a step that can be taken
\* is taken.
FairSpecLoop == SpecLoop /\ WF_vars(NextLoop)

\* ------------------------------------------------------------------ claims
\* find_gaps has returned; find_30_min_slots has returned.
GapsReturned == pc \in {"find_slots", "format", "done"}
SlotsReturned == pc \in {"format", "done"}

\* Every datetime.now() of the invocation so far gave the date it started on.
SameDate == now_date = 0

\* Interval a lies in [lo, hi]; intervals a and b share more than a point.
Inside(a, lo, hi) == lo <= a[1] /\ a[2] <= hi
Intersects(a, b) == a[1] < b[2] /\ b[1] < a[2]

NonOverlapping(ev) == \A i, j \in DOMAIN ev : i < j => ~Intersects(ev[i], ev[j])
SortedEvents(ev) == \A i, j \in DOMAIN ev : i < j => ev[i][1] <= ev[j][1]
PositiveEvents(ev) == \A i \in DOMAIN ev : ev[i][2] > ev[i][1]
NoInterval(text) == \A i \in DOMAIN text : ~HasMatch(text[i])

RECURSIVE SumDurations(_)
SumDurations(s) ==
    IF s = <<>> THEN 0
    ELSE (s[Len(s)][2] - s[Len(s)][1]) + SumDurations(SubSeq(s, 1, Len(s) - 1))

\* Every slot the loops of find_30_min_slots build, before the slice.
Candidates == SlotsFrom(gaps, 1)

\* The slot generator as the specification words it: gap by gap, pass by
\* pass, stopping for good once MaxSlots slots are collected.
RECURSIVE StopAtMax(_, _, _, _)
StopAtMax(gs, i, current_time, out) ==
    IF Len(out) >= MaxSlots \/ i > Len(gs) THEN out
    ELSE IF current_time + SlotMinutes <= gs[i][2]
         THEN StopAtMax(gs, i, current_time + StrideMinutes,
                        Append(out, <<current_time, current_time + SlotMinutes>>))
         ELSE StopAtMax(gs, i + 1, IF i + 1 <= Len(gs) THEN gs[i + 1][1] ELSE 0, out)

EmptyText == <<Line(TRUE, FALSE, FALSE, <<>>)>>
SentinelText == <<Line(FALSE, FALSE, TRUE, <<>>)>>

\* C1: every gap returned by find_gaps and every slot returned lies inside
\* the work window: it starts at or after 09:00 and ends at or before 18:00.
\* Stated for the invocations during which the system date does not change.
\* (The code does not clip: violated for an event outside the window.)
C1_GapsAndSlotsInsideWorkWindow ==
    SameDate =>
        /\ GapsReturned =>
              \A i \in DOMAIN gaps : Inside(gaps[i], work_start_time, work_end_time)
        /\ SlotsReturned =>
              \A k \in DOMAIN slot_spans :
                  Inside(slot_spans[k], work_start_time, work_end_time)

\* C2: no gap returned by find_gaps, and no returned slot, intersects a busy
\* interval of the sorted event list.  Stated for the invocations during
\* which the system date does not change.  (Violated for a nested event.)
C2_GapsAvoidBusyIntervals ==
    SameDate =>
        /\ GapsReturned =>
              \A i \in DOMAIN gaps, j \in DOMAIN events :
                  ~Intersects(gaps[i], events[j])
        /\ SlotsReturned =>
              \A k \in DOMAIN slot_spans, j \in DOMAIN events :
                  ~Intersects(slot_spans[k], events[j])

\* C3: when find_30_min_slots returns, every slot is the string of a 30-minute
\* span that is contained in one gap of the gap list: gap.start <= slot.start
\* and slot.end <= gap.end.
C3_SlotsContainedInAGap ==
    pc = "format" =>
        /\ Len(available_slots) = Len(slot_spans)
        /\ \A k \in DOMAIN slot_spans :
              /\ available_slots[k] = SlotStr(slot_spans[k])
              /\ \E i \in DOMAIN gaps :
                    /\ gaps[i][1] <= slot_spans[k][1]
                    /\ slot_spans[k][2] <= gaps[i][2]

\* A returned slot ends exactly where its gap ends.
C3_Witness ==
    /\ pc = "format"
    /\ events # <<>>
    /\ Len(available_slots) = MaxSlots
    /\ \E k \in DOMAIN slot_spans, i \in DOMAIN gaps :
          gaps[i][1] <= slot_spans[k][1] /\ slot_spans[k][2] = gaps[i][2]

\* C4: find_30_min_slots returns at most 3 slots, whatever the gaps.
C4_AtMostThreeSlots ==
    SlotsReturned => Len(available_slots) <= 3 /\ Len(result.slots) <= 3

\* Several gaps hold more than 3 candidate slots and 3 are returned.
C4_Witness ==
    /\ pc = "done"
    /\ Len(gaps) >= 2
    /\ Len(Candidates) > MaxSlots
    /\ Len(result.slots) = MaxSlots

\* C5: the slots of the returned result are the earliest candidates in
\* chronological order: strictly increasing starts, min(3, number of
\* candidates) of them, no candidate left out starts before a returned one,
\* and slicing the full candidate list gives what stopping at 3 collected
\* slots gives.
C5_EarliestSlotsInOrder ==
    pc = "done" =>
        LET cand == Candidates
            n == Len(slot_spans)
        IN  /\ \A k \in 1..(n - 1) : slot_spans[k][1] < slot_spans[k + 1][1]
            /\ Len(result.slots) = n
            /\ \A k \in 1..n : result.slots[k] = SlotStr(slot_spans[k])
            /\ n = (IF Len(cand) < MaxSlots THEN Len(cand) ELSE MaxSlots)
            /\ \A c \in (n + 1)..Len(cand) :
                  \A k \in 1..n : cand[c][1] > slot_spans[k][1]
            /\ slot_spans = StopAtMax(gaps, 1, IF gaps = <<>> THEN 0 ELSE gaps[1][1], <<>>)

\* The 3 returned slots come from two gaps and later candidates are left out.
C5_Witness ==
    /\ pc = "done"
    /\ Len(Candidates) > MaxSlots
    /\ Len(slot_spans) = MaxSlots
    /\ \E k \in 1..(Len(slot_spans) - 1) :
          slot_spans[k + 1][1] - slot_spans[k][1] > StrideMinutes

\* C6: for events sorted by start, each with end > start, overlapping or not,
\* the gaps of find_gaps are in chronological order and pairwise
\* non-overlapping: each gap ends at or before the start of every later gap.
C6_GapsOrderedAndDisjoint ==
    (GapsReturned /\ SortedEvents(events) /\ PositiveEvents(events)) =>
        \A i, j \in DOMAIN gaps : i < j => gaps[i][2] <= gaps[j][1]

\* Overlapping events with at least two gaps.
C6_Witness ==
    /\ pc = "done"
    /\ SortedEvents(events) /\ PositiveEvents(events)
    /\ \E j \in 1..(Len(events) - 1) : events[j + 1][1] < events[j][2]
    /\ Len(gaps) >= 2

\* C7 as stated: for pairwise non-overlapping events, the gap durations plus
\* the event durations add up to the work window's 9 hours.  Stated for the
\* invocations during which the system date does not change.  (Violated for
\* an event outside the window.)
C7_DurationsSumToWindow ==
    (SameDate /\ GapsReturned /\ NonOverlapping(events)) =>
        SumDurations(gaps) + SumDurations(events) = (work_end - work_start) * HourMinutes

\* C7 amended: for pairwise non-overlapping events that all lie inside the
\* work window, the gap durations plus the event durations add up to the
\* work window's 9 hours.
C7_DurationsSumToWindowInside ==
    (/\ GapsReturned
     /\ NonOverlapping(events)
     /\ \A j \in DOMAIN events : Inside(events[j], work_start_time, work_end_time)) =>
        /\ work_end_time - work_start_time = (work_end - work_start) * HourMinutes
        /\ SumDurations(gaps) + SumDurations(events) = (work_end - work_start) * HourMinutes

\* Two separate events inside the window, with gaps around them.
C7_Witness ==
    /\ pc = "done"
    /\ Len(events) >= 2
    /\ NonOverlapping(events)
    /\ \A j \in DOMAIN events : Inside(events[j], work_start_time, work_end_time)
    /\ Len(gaps) >= 2

\* C8: every gap of find_gaps has end > start; two back-to-back events (the
\* second starts when the first ends) have no gap between them.
C8_GapsHavePositiveDuration ==
    GapsReturned =>
        /\ \A i \in DOMAIN gaps : gaps[i][2] > gaps[i][1]
        /\ \A j \in 1..(Len(events) - 1) :
              events[j + 1][1] = events[j][2] =>
                  \A i \in DOMAIN gaps : gaps[i] # <<events[j][2], events[j + 1][1]>>

\* Back-to-back events, and some gap is returned.
C8_Witness ==
    /\ pc = "done"
    /\ \E j \in 1..(Len(events) - 1) : events[j + 1][1] = events[j][2]
    /\ gaps # <<>>

\* C9: when no line of the text holds a start-end interval, find_gaps returns
\* exactly one gap, the work window from 09:00 to 18:00.
C9_NoIntervalGivesFullWindow ==
    (GapsReturned /\ NoInterval(events_text)) =>
        /\ Len(gaps) = 1
        /\ gaps[1] = <<work_start_time, work_end_time>>
        /\ work_start_time = Combine(now_date, 9, 0)
        /\ work_end_time = Combine(now_date, 18, 0)

\* A text of lines without any interval, one of them not blank.
C9_Witness ==
    /\ pc = "done"
    /\ NoInterval(events_text)
    /\ \E i \in DOMAIN events_text : ~events_text[i].blank /\ ~events_text[i].sentinel
    /\ gaps = <<(<<work_start_time, work_end_time>>)>>

\* C10: the empty text and the text "No events found for today." are no
\* error: extract_events returns the empty list, nothing is raised, and the
\* returned result counts 0 events and lists slots.
C10_EmptyOrSentinelTextIsNoError ==
    events_text \in {EmptyText, SentinelText} =>
        /\ pc # "raised"
        /\ pc = "done" \/ ENABLED Next
        /\ acc = <<>> /\ events = <<>>
        /\ pc = "done" =>
              /\ result.parsed = 0
              /\ result.slots # <<>>
              /\ ~result.none_found

\* The sentinel text has been processed and 3 slots are returned.
C10_Witness ==
    /\ pc = "done"
    /\ events_text = SentinelText
    /\ result.parsed = 0
    /\ Len(result.slots) = MaxSlots

\* The hour of the day a well-formed token expresses, and the three ways of
\* writing an hour and minute: "2:30 PM", "14:30", "2:30PM".
WellFormed(tok) ==
    /\ tok.m \in 0..59
    /\ IF tok.mer = "" THEN tok.h \in 0..23 ELSE tok.h \in 1..12
HourOf(tok) ==
    IF tok.mer = "" THEN tok.h ELSE (tok.h % 12) + (IF tok.mer = "PM" THEN 12 ELSE 0)
SpellingsOf(hour, minute) ==
    LET h12 == IF hour % 12 = 0 THEN 12 ELSE hour % 12
        mer == IF hour < 12 THEN "AM" ELSE "PM"
    IN  {Tok(h12, minute, mer, TRUE), Tok(hour, minute, "", FALSE),
         Tok(h12, minute, mer, FALSE)}
TimeOfDay(t) == t % DayMinutes

\* C11: for every hour and minute, parse_time gives the same time of day for
\* the token with a space ("2:30 PM"), the 24-hour token ("14:30") and the
\* token without a space ("2:30PM"): what it returned for one of them is what
\* it returns for each of the three.
C11_SameTimeInEveryFormat ==
    (pc # "parse_time" /\ WellFormed(time_str)) =>
        /\ pc = "parsed"
        /\ \A other \in SpellingsOf(HourOf(time_str), time_str.m), today \in Dates :
              /\ parse_time(other, today).kind = "ok"
              /\ TimeOfDay(parse_time(other, today).t) = TimeOfDay(parsed_time.t)

\* "2:30PM" has been parsed to 14:30.
C11_Witness ==
    /\ pc = "parsed"
    /\ time_str = Tok(2, 30, "PM", FALSE)
    /\ TimeOfDay(parsed_time.t) = 14 * HourMinutes + 30

\* C12: parse_time never raises: for every token it returns a time of day or
\* a failure value.  (Violated: the fallback's time.replace() raises
\* ValueError for "25:00", "10:75" and "13:00 PM".)
C12_ParseTimeNeverRaises ==
    pc # "parse_time" => (pc = "parsed" /\ parsed_time.kind \in {"ok", "none"})

\* A line that contributes an interval: not skipped, with a time range whose
\* two tokens parse_time turns into datetimes.
Parseable(line) ==
    /\ ~SkipLine(line)
    /\ HasMatch(line)
    /\ parse_time(MatchOf(line)[1], 0).kind = "ok"
    /\ parse_time(MatchOf(line)[2], 0).kind = "ok"
\* A line with a time range one of whose tokens parse_time cannot turn into a
\* datetime.
Unparseable(line) == ~SkipLine(line) /\ HasMatch(line) /\ ~Parseable(line)
ParseableLines(text) == {i \in DOMAIN text : Parseable(text[i])}

\* C13: a line whose start or end token cannot be parsed is dropped and the
\* scan goes on: nothing is raised, the invocation can always go on until it
\* returns, and the returned count of parsed events is the number of lines
\* with a parseable start-end pair.  (Violated: for "25:00 - 26:00"
\* parse_time raises, which ends extract_events and the invocation.)
C13_UnparseableLineIsDropped ==
    /\ pc # "raised"
    /\ pc = "done" => result.parsed = Cardinality(ParseableLines(events_text))

\* The line the loop of extract_events has just been over.
LastLine == events_text[line_no - 1]
Appended == pc = "extract" /\ line_no > 1 /\ ~SkipLine(LastLine) /\ HasMatch(LastLine)

\* C14: every interval of extract_events has end > start.  The interval
\* appended for a line is (start, end) as parsed when the parsed end is after
\* the parsed start, and (start, end + 24 hours) when the parsed end is
\* before or equal to it; "11:30 PM - 12:30 AM" ends at 00:30 of the day
\* after its start.
C14_EndAfterStart ==
    /\ PositiveEvents(acc)
    /\ PositiveEvents(events)
    /\ Appended =>
          /\ \E d1 \in Dates :
                /\ d1 <= now_date
                /\ LET start_time == parse_time(MatchOf(LastLine)[1], d1).t
                       end_time == parse_time(MatchOf(LastLine)[2], now_date).t
                   IN  acc[Len(acc)] =
                           <<start_time,
                             IF end_time > start_time THEN end_time
                             ELSE end_time + 24 * HourMinutes>>
          /\ LastLine = Event(PM(11, 30), AM(12, 30)) =>
                acc[Len(acc)][2] =
                    Combine((acc[Len(acc)][1] \div DayMinutes) + 1, 0, 30)

\* An end earlier than the start, an end equal to the start and an end after
\* the start have been normalised: "11:30 PM - 12:30 AM", "0:30 PM - 12:30"
\* and "9:00 AM - 10:00 AM".
C14_Witness ==
    /\ pc = "extract"
    /\ events_text = <<Event(PM(11, 30), AM(12, 30)), Event(PM(0, 30), H24(12, 30)),
                       Event(AM(9, 0), AM(10, 0))>>
    /\ acc = <<(<<Combine(0, 23, 30), Combine(1, 0, 30)>>),
               (<<Combine(0, 12, 30), Combine(1, 12, 30)>>),
               (<<Combine(0, 9, 0), Combine(0, 10, 0)>>)>>

\* How many entries of list s are the interval iv.
Occurrences(s, iv) == Cardinality({i \in DOMAIN s : s[i] = iv})
\* The lines an interval was appended for.
MatchedLines(text) == {i \in DOMAIN text : ~SkipLine(text[i]) /\ HasMatch(text[i])}

\* C15: the list extract_events returns is in ascending order of start and
\* holds one entry per successfully parsed line: it is the list the loop
\* built, reordered, every interval as many times as the loop appended it, so
\* overlapping and duplicate intervals all stay in it.
C15_SortedNothingMerged ==
    pc = "find_gaps" =>
        /\ SortedEvents(events)
        /\ Len(events) = Cardinality(MatchedLines(events_text))
        /\ Len(events) = Len(acc)
        /\ \A i \in DOMAIN acc : Occurrences(events, acc[i]) = Occurrences(acc, acc[i])

\* Lines out of order, one interval twice, and two overlapping intervals.
C15_Witness ==
    /\ pc = "find_gaps"
    /\ ~SortedEvents(acc)
    /\ \E i, j \in DOMAIN events : i < j /\ events[i] = events[j]
    /\ \E i, j \in DOMAIN events : events[i] # events[j] /\ Intersects(events[i], events[j])

\* The intervals extract_events appends for the lines from index i on, in a
\* run none of whose tokens raises and whose clock reads all give date 0.
RECURSIVE AppendedFrom(_, _)
AppendedFrom(text, i) ==
    IF i > Len(text) THEN <<>>
    ELSE IF SkipLine(text[i]) \/ ~HasMatch(text[i]) THEN AppendedFrom(text, i + 1)
    ELSE LET start_time == parse_time(MatchOf(text[i])[1], 0).t
             end_time == parse_time(MatchOf(text[i])[2], 0).t
         IN  <<(<<start_time, NormalizeEnd(start_time, end_time)>>)>>
             \o AppendedFrom(text, i + 1)

\* What find_available_slots returns in the run whose clock reads all give
\* date 0.
SameDateRun(text) ==
    LET ev == SortedByStart(AppendedFrom(text, 1))
        gs == find_gaps(ev, Combine(0, work_start, 0), Combine(0, work_end, 0))
        sl == find_30_min_slots(gs)
    IN  [parsed |-> Len(ev), gaps |-> Len(gs), slots |-> sl,
         none_found |-> (sl = <<>>)]

\* C16: two runs of find_available_slots on the same text return the same
\* output whatever the clock reads: every run that returns gives the count of
\* events, the count of gaps and the slots of the run, on the same text,
\* during which the date never changes.  (Violated: when the date changes
\* between the parse_time calls and find_gaps, the window is a day after the
\* events.)
C16_SameTextSameOutput ==
    pc = "done" => result = SameDateRun(events_text)

\* C17: find_gaps called with a work window whose start hour is not before
\* its end hour does not return any gap.  (Violated: no test is made on the
\* window; with no events the gap (18:00, 09:00) is returned for the window
\* 18 to 9.)
C17_DegenerateWindowGivesNoGap ==
    (pc = "find_slots" /\ work_start_time >= work_end_time) => gaps = <<>>

\* C18: when the calendar command fails (non-zero exit or command not
\* found), get_available_slots_direct does not run the slot finder on the
\* failure text to its end and does not return a list of free slots.
\* (Violated: the failure text is an ordinary return value; the slot finder
\* finds no event in it and returns 3 slots from 09:00.)
C18_CommandFailureGivesNoSlots ==
    calendar \in CommandFailures => ~(pc = "done" /\ result.slots # <<>>)

\* No gap is long enough to hold a 30-minute slot.
NoGapLongEnough == \A i \in DOMAIN gaps : gaps[i][2] - gaps[i][1] < SlotMinutes

\* C19: when no gap can hold a 30-minute slot, find_available_slots does not
\* fail: nothing is raised once extract_events has returned, the result has
\* an empty slot list and the message that no slot was found during work
\* hours; the message is in the result in this case only.
C19_NoSlotIsNoError ==
    /\ pc = "raised" => (events = <<>> /\ gaps = <<>> /\ line_no <= Len(events_text))
    /\ pc = "done" =>
          /\ result.none_found <=> NoGapLongEnough
          /\ result.none_found => result.slots = <<>>
          /\ ~result.none_found => result.slots # <<>>

\* One event from 09:00 to 18:00: no gap, no slot, the message.
C19_Witness ==
    /\ pc = "done"
    /\ events_text = <<Event(AM(9, 0), PM(6, 0))>>
    /\ gaps = <<>>
    /\ result.slots = <<>>
    /\ result.none_found

\* C20: with the single event "10:00 AM - 11:00 AM" the gaps are exactly
\* 09:00-10:00 and 11:00-18:00 of one day and the 3 returned slots start at
\* 9:00, 9:15 and 9:30.  (Violated when the date changes between parse_time
\* and find_gaps: the only gap then runs from 11:00 to 18:00 of the next day
\* and the slots start at 11:00.)
C20_SingleEventExample ==
    (pc = "done" /\ events_text = <<Event(AM(10, 0), AM(11, 0))>>) =>
        /\ \E day \in Dates :
              gaps = <<(<<Combine(day, 9, 0), Combine(day, 10, 0)>>),
                       (<<Combine(day, 11, 0), Combine(day, 18, 0)>>)>>
        /\ result.slots = <<"09:00 AM - 09:30 AM", "09:15 AM - 09:45 AM",
                            "09:30 AM - 10:00 AM">>

\* C21: the hour of a slot string has no leading zero: with no events the
\* first returned slot is the string "9:00 AM - 9:30 AM".  (Violated:
\* strftime('%I') writes the hour with two digits, "09:00 AM - 09:30 AM".)
C21_HourWithoutLeadingZero ==
    (pc = "done" /\ events_text = EmptyText) =>
        /\ result.slots # <<>>
        /\ result.slots[1] = "9:00 AM - 9:30 AM"

\* What an invocation returns once extract_events has returned ev and
\* find_gaps reads the date today.
ResultOf(ev, today) ==
    LET gs == find_gaps(ev, Combine(today, work_start, 0), Combine(today, work_end, 0))
        sl == find_30_min_slots(gs)
    IN  [parsed |-> Len(ev), gaps |-> Len(gs), slots |-> sl,
         none_found |-> (sl = <<>>)]

\* The results an invocation run alone can return on text from line i on,
\* with list so far the intervals appended and d the date read last: one
\* result for each way the dates read by parse_time and find_gaps can go.
RECURSIVE ResultsFrom(_, _, _, _)
ResultsFrom(text, i, list, d) ==
    IF i > Len(text)
    THEN {ResultOf(SortedByStart(list), today) : today \in {x \in Dates : d <= x}}
    ELSE IF SkipLine(text[i]) \/ ~HasMatch(text[i])
    THEN ResultsFrom(text, i + 1, list, d)
    ELSE UNION {
            LET start_time == parse_time(MatchOf(text[i])[1], dd[1])
                end_time == parse_time(MatchOf(text[i])[2], dd[2])
            IN  IF start_time.kind = "raise" \/ end_time.kind = "raise" THEN {}
                ELSE ResultsFrom(text, i + 1,
                                 Append(list, <<start_time.t,
                                                NormalizeEnd(start_time.t, end_time.t)>>),
                                 dd[2])
            : dd \in {x \in Dates \X Dates : d <= x[1] /\ x[1] <= x[2]}}
AloneResults(text) == ResultsFrom(text, 1, <<>>, 0)

\* C22: two invocations whose steps interleave in any order share no mutable
\* state: each one returns a result it returns when it runs alone on its own
\* text, and raises only when a line of its own text cannot be parsed.
C22_ConcurrentRunsAreIndependent ==
    /\ pc = "done" => result \in AloneResults(events_text)
    /\ other_run.pc = "done" => other_run.result \in AloneResults(other_run.events_text)
    /\ pc = "raised" => \E i \in DOMAIN events_text : Unparseable(events_text[i])
    /\ other_run.pc = "raised" =>
          \E i \in DOMAIN other_run.events_text : Unparseable(other_run.events_text[i])

\* Both invocations have returned, each with one event parsed, on different
\* texts and with different results, the date having changed while they ran.
C22_Witness ==
    /\ pc = "done"
    /\ other_run.pc = "done"
    /\ events_text # other_run.events_text
    /\ result # other_run.result
    /\ result.parsed = 1
    /\ other_run.result.parsed = 1
    /\ now_date = 1

\* No format of parse_time accepts the token: the numeric fallback is used.
InFallback(tok) ==
    Strptime_I_M_p(tok) = <<>> /\ Strptime_H_M(tok) = <<>> /\ Strptime_I_Mp(tok) = <<>>

\* The hour the fallback is said to give: 12 AM is 0, 12 PM stays 12, PM adds
\* 12 unless the hour is 12 or more already.
SaidFallbackHour(tok) ==
    IF tok.mer = "AM" /\ tok.h = 12 THEN 0
    ELSE IF tok.mer = "PM" /\ tok.h < 12 THEN tok.h + 12
    ELSE tok.h

\* C23: in the numeric fallback, for a token whose written hour is at most
\* 23, the hour is 0 for 12 AM, 12 for 12 PM, the hour plus 12 for PM unless
\* the hour is 12 or more already, so it is in 0..23 and, the minute being
\* in 0..59, parse_time returns that time of day.  (Violated: the test is
\* hour != 12, so "13:00 PM" gets hour 25 and time.replace() raises.)
C23_FallbackHourInRange ==
    (pc # "parse_time" /\ InFallback(time_str) /\ time_str.h <= 23) =>
        /\ FallbackHour(time_str) = SaidFallbackHour(time_str)
        /\ FallbackHour(time_str) \in 0..23
        /\ time_str.m \in 0..59 =>
              /\ parsed_time.kind = "ok"
              /\ TimeOfDay(parsed_time.t) =
                     SaidFallbackHour(time_str) * HourMinutes + time_str.m

\* The lines that carry a start-end time range, whatever they start with.
LinesWithRange(text) == {i \in DOMAIN text : HasMatch(text[i])}

\* C24: a line is skipped only when it is blank, a bullet alone or the
\* sentinel alone: when extract_events returns, every line that carries a
\* time range has given its interval, also a line that starts with the
\* bullet.  (Violated: "• 10:00 AM - 11:00 AM" is skipped by
\* line.startswith('•') before the range is looked for.)
C24_OnlyBareLinesAreSkipped ==
    pc = "find_gaps" => Len(events) = Cardinality(LinesWithRange(events_text))

\* The date of a datetime.
DateOf(t) == t \div DayMinutes

\* C25: within one invocation every time value is on the same reference
\* date, whatever the clock reads: the starts of all intervals are on one
\* date, an interval lasts at most 24 hours (its end is the end's time of
\* day on the date of the start, or a day later), and the work window starts
\* and ends on the date of the intervals.  (Violated: every parse_time call
\* and find_gaps read datetime.now().date() anew.)
C25_OneReferenceDate ==
    /\ \A i, j \in DOMAIN acc : DateOf(acc[i][1]) = DateOf(acc[j][1])
    /\ \A i \in DOMAIN acc : acc[i][2] - acc[i][1] <= DayMinutes
    /\ GapsReturned =>
          /\ DateOf(work_end_time) = DateOf(work_start_time)
          /\ \A j \in DOMAIN events : DateOf(events[j][1]) = DateOf(work_start_time)

\* The slots a gap is said to hold: [start + 15k, start + 15k + 30) for every
\* k >= 0 with start + 15k + 30 <= end.
SaidSlots(gap) ==
    {<<gap[1] + StrideMinutes * k, gap[1] + StrideMinutes * k + SlotMinutes>> :
        k \in {n \in 0..((gap[2] - gap[1]) \div StrideMinutes) :
                  gap[1] + StrideMinutes * n + SlotMinutes <= gap[2]}}

\* C26: when the while loop has ended for a gap, the slots appended for it
\* are exactly the slots [gap.start + 15k, gap.start + 15k + 30) with
\* gap.start + 15k + 30 <= gap.end: each lasts 30 minutes, consecutive slots
\* of a gap start 15 minutes apart, a gap shorter than 30 minutes gives none;
\* what find_30_min_slots returns is the first 3 of them.
C26_SlotsOfAGap ==
    /\ pc = "for_gap" =>
          LET ended == 1..(loop.gap_no - 1)
              said == UNION {SaidSlots(gaps[i]) : i \in ended}
              slots == loop.slots
          IN  /\ {slots[k] : k \in DOMAIN slots} = said
              /\ Len(slots) = Cardinality(said)
              /\ \A k \in DOMAIN slots : slots[k][2] - slots[k][1] = 30
              /\ \A k \in 1..(Len(slots) - 1) :
                    \/ slots[k + 1][1] = slots[k][1] + 15
                    \/ \E i \in ended : slots[k + 1][1] = gaps[i][1]
              /\ \A i \in ended :
                    gaps[i][2] - gaps[i][1] < 30 =>
                        \A k \in DOMAIN slots : slots[k][1] # gaps[i][1]
    /\ pc = "format" =>
          /\ slot_spans = Earliest(SlotsFrom(gaps, 1))
          /\ available_slots = find_30_min_slots(gaps)

\* The loop has ended for a gap of 60 minutes: 3 slots, 15 minutes apart,
\* the last one ending with the gap.
C26_Witness ==
    /\ pc = "for_gap"
    /\ gaps = <<(<<Combine(0, 9, 0), Combine(0, 10, 0)>>)>>
    /\ loop.gap_no = 2
    /\ loop.slots = <<(<<Combine(0, 9, 0), Combine(0, 9, 30)>>),
                      (<<Combine(0, 9, 15), Combine(0, 9, 45)>>),
                      (<<Combine(0, 9, 30), Combine(0, 10, 0)>>)>>

\* C28: find_available_slots terminates on every text: it returns or raises;
\* the while loop of find_30_min_slots ends for every gap, also for the
\* leading gap up to an event that starts at 11:30 PM.
C28_Terminates == <>(pc \in {"done", "raised"})

\* The invocation has returned after the loop went through the gap from
\* 09:00 to 11:30 PM.
C28_Witness ==
    /\ pc = "done"
    /\ events_text = <<Event(PM(11, 30), AM(12, 30))>>
    /\ gaps = <<(<<Combine(0, 9, 0), Combine(0, 23, 30)>>)>>
    /\ Len(loop.slots) = 57

\* The interval ends on the date it starts on: no day was added to its end
\* (in an invocation during which the system date does not change).
EndsSameDay(iv) == DateOf(iv[2]) = DateOf(iv[1])

\* C27: an interval whose parsed end is at or before its start is, once a
\* day is added to its end, left out of the gap computation: the gaps are
\* those of the other intervals.  Stated for the invocations during which
\* the system date does not change.  (Violated: find_gaps is given every
\* interval; "11:30 PM - 12:30 AM" stretches the leading gap to 11:30 PM and
\* removes the trailing gap.)
C27_WrappedIntervalsLeftOut ==
    (SameDate /\ GapsReturned) =>
        gaps = find_gaps(SelectSeq(events, EndsSameDay), work_start_time, work_end_time)

\* The texts with the lines of text in another order.
Reordered(text) ==
    {[i \in DOMAIN text |-> text[p[i]]] : p \in Permutations(DOMAIN text)}

\* The gaps of the run whose clock reads all give date 0.
SameDateGaps(text) ==
    find_gaps(SortedByStart(AppendedFrom(text, 1)),
              Combine(0, work_start, 0), Combine(0, work_end, 0))

\* C29: the gaps and the slots do not depend on the order of the lines: the
\* run on the lines in any other order gives the same gaps and the same
\* slots, also when two events start at the same time and end at different
\* times.  Stated for the invocations during which the system date does not
\* change.  (Violated: the sort keeps the input order of ties and the
\* trailing gap is taken from the last interval, so "9:00 AM - 6:00 PM"
\* before "9:00 AM - 10:00 AM" gives the gap 10:00-18:00 and the other order
\* gives no gap.)
C29_LineOrderDoesNotMatter ==
    (pc = "done" /\ SameDate) =>
        \A text \in Reordered(events_text) :
            /\ SameDateGaps(text) = gaps
            /\ SameDateRun(text).slots = result.slots

\* The lines read so far that are not blank.
NonBlankRead == {i \in 1..(line_no - 1) : ~events_text[i].blank}

\* The interval comes from the first time range of the line: it starts at
\* the time of day of the first start token and ends at that of the first
\* end token.
FromFirstRange(iv, line) ==
    /\ TimeOfDay(iv[1]) = TimeOfDay(parse_time(line.ranges[1][1], 0).t)
    /\ TimeOfDay(iv[2]) = TimeOfDay(parse_time(line.ranges[1][2], 0).t)

\* C30: extract_events takes at most one interval per line, from the first
\* time range on the line: the intervals are never more than the non-blank
\* lines read, the interval appended for a line is that of its first range,
\* and every interval is the first range of some line (a second range on a
\* line gives nothing).
C30_OneIntervalPerLine ==
    /\ pc = "extract" => Len(acc) <= Cardinality(NonBlankRead)
    /\ Appended => FromFirstRange(acc[Len(acc)], LastLine)
    /\ pc = "find_gaps" =>
          /\ Len(events) <= Cardinality(NonBlankRead)
          /\ \A k \in DOMAIN events :
                \E i \in DOMAIN events_text :
                    /\ ~SkipLine(events_text[i])
                    /\ HasMatch(events_text[i])
                    /\ FromFirstRange(events[k], events_text[i])

\* The line "1:00 PM - 2:00 PM, 3:00 PM - 4:00 PM" alone has given the one
\* interval 13:00-14:00.
C30_Witness ==
    /\ pc = "find_gaps"
    /\ Len(events_text) = 1
    /\ Len(events_text[1].ranges) = 2
    /\ events = <<(<<Combine(0, 13, 0), Combine(0, 14, 0)>>)>>

====
